---- MODULE Spec2Model ----
(***************************************************************************)
(* The scoring and temporal-aggregation engine of src/app.py (the Bourbon  *)
(* Chasers Strava dashboard): one run of the script from the loaded Excel  *)
(* batch through preprocessing, week calculation, sidebar filters, the     *)
(* activity log, the leaderboard, the biggest mover and the three          *)
(* week-to-date comparisons.                                               *)
(*                                                                         *)
(* Representation.  A DataFrame is a record [cols, rows]: the set of its   *)
(* column names and the sequence of its rows.  A date is Python's          *)
(* date.toordinal().  Minutes, miles and points are fixed-point numbers    *)
(* counted in 1/Unit, so that fractional Excel cells and astype(int) are   *)
(* modelled exactly.  Participant names are integers whose numeric order   *)
(* is the alphabetical order of the names.                                 *)
(***************************************************************************)
EXTENDS Integers, Sequences, FiniteSets, TLC

\* a missing cell: NaN / NaT / None
NaN == -9999
\* a cell holding text that is neither a number nor a date
BadText == -9998
\* fixed-point resolution: a numeric cell v stands for v / Unit
Unit == 2

(***************************************************************************)
(* Calendar: datetime(y, m, d).date(), date.toordinal(), date.weekday()    *)
(***************************************************************************)
IsLeap(y) == (y % 4 = 0) /\ ((y % 100 # 0) \/ (y % 400 = 0))

DaysBeforeYear(y) == (y - 1) * 365 + ((y - 1) \div 4) - ((y - 1) \div 100) + ((y - 1) \div 400)

DaysInMonth(y, m) ==
    IF m = 2 THEN (IF IsLeap(y) THEN 29 ELSE 28)
    ELSE IF m \in {4, 6, 9, 11} THEN 30 ELSE 31

RECURSIVE DaysBeforeMonth(_, _)
DaysBeforeMonth(y, m) ==
    IF m = 1 THEN 0 ELSE DaysBeforeMonth(y, m - 1) + DaysInMonth(y, m - 1)

toordinal(y, m, d) == DaysBeforeYear(y) + DaysBeforeMonth(y, m) + d

\* date.weekday(): Monday = 0 .. Sunday = 6
weekday(date) == (date + 6) % 7

\* date.strftime("%A")
DayNames == <<"Monday", "Tuesday", "Wednesday", "Thursday", "Friday", "Saturday", "Sunday">>

day_name(date) == DayNames[weekday(date) + 1]

\* a slip in the date: the competition starts a day later, on a Monday
competition_start_a_day_late == toordinal(2024, 3, 11)

\* competition_start_datetime = datetime(2024, 3, 10)
competition_start_datetime == toordinal(2024, 3, 10)

\* competition_duration_weeks / competition_total_weeks / range(1, 9)
competition_total_weeks == 8

(***************************************************************************)
(* Columns                                                                 *)
(***************************************************************************)
zone_cols == <<"Zone 1", "Zone 2", "Zone 3", "Zone 4", "Zone 5">>

ZoneColSet == {zone_cols[i] : i \in 1..5}

expected_cols ==
    {"Date", "Participant", "Workout Type", "Total Duration", "Total Distance",
     "Zone 1", "Zone 2", "Zone 3", "Zone 4", "Zone 5", "Points", "Week"}

\* the columns of the Excel export
RawCols == expected_cols \ {"Points"}

WeekTotalsCol ==
    <<"Week 1 Totals", "Week 2 Totals", "Week 3 Totals", "Week 4 Totals",
      "Week 5 Totals", "Week 6 Totals", "Week 7 Totals", "Week 8 Totals">>

(***************************************************************************)
(* pandas helpers                                                          *)
(***************************************************************************)
\* Series.dt.strftime("%B %d, %Y"): the date as text, a cell that is no
\* longer a date; the text of the date d is written 0 - d
strftime(date) == 0 - date

\* pd.to_datetime(..., errors='coerce'): a date stays, the text of a date is
\* parsed, anything else is NaT
to_datetime(c) ==
    IF c \in {NaN, BadText} THEN NaN
    ELSE IF c < 0 THEN 0 - c
    ELSE c

\* pd.to_numeric(x, errors='coerce')
to_numeric(c) == IF c = BadText THEN NaN ELSE c

\* Series.fillna(0)
fillna0(c) == IF c = NaN THEN 0 ELSE c

\* Series.astype(int) of a float column: truncation toward zero
astype_int(x) == IF x >= 0 THEN (x \div Unit) * Unit ELSE 0 - (((0 - x) \div Unit) * Unit)

\* DataFrame.empty
empty(df) == df.rows = <<>> \/ df.cols = {}

\* Series.sum(): NaN cells are skipped
RECURSIVE sum(_)
sum(cells) ==
    IF cells = <<>> THEN 0
    ELSE (IF Head(cells) = NaN THEN 0 ELSE Head(cells)) + sum(Tail(cells))

\* the ascending sequence of a finite set of integers: sorted(...)
RECURSIVE sorted(_)
sorted(S) ==
    IF S = {} THEN <<>>
    ELSE LET m == CHOOSE x \in S : \A y \in S : x <= y
         IN <<m>> \o sorted(S \ {m})

(***************************************************************************)
(* DataFrame.sort_values(by=..., ascending=False).  pandas sorts with      *)
(* kind='quicksort', which does not promise an order among equal keys: the *)
(* order of ties is the build's (numpy's insertion sort keeps them in      *)
(* place, its vectorised sorts do not).  order says what this build does   *)
(* with ties: "keep" them in incoming order or "flip" them.                *)
(***************************************************************************)
TieOrders == {"keep", "flip"}

\* keys[i] is the value of the sort column in rows[i]
sort_values_desc(rows, keys, order) ==
    LET n == Len(rows)
        Before(j, i) ==
            \/ keys[j] > keys[i]
            \/ /\ keys[j] = keys[i]
               /\ IF order = "keep" THEN j < i ELSE j > i
        pos(i) == 1 + Cardinality({j \in 1..n : Before(j, i)})
    IN [k \in 1..n |-> rows[CHOOSE i \in 1..n : pos(i) = k]]

\* DataFrame.sort_values(by=..., ascending=True)
sort_values_asc(rows, keys, order) ==
    LET n == Len(rows)
        Before(j, i) ==
            \/ keys[j] < keys[i]
            \/ /\ keys[j] = keys[i]
               /\ IF order = "keep" THEN j < i ELSE j > i
        pos(i) == 1 + Cardinality({j \in 1..n : Before(j, i)})
    IN [k \in 1..n |-> rows[CHOOSE i \in 1..n : pos(i) = k]]

(***************************************************************************)
(* State                                                                   *)
(***************************************************************************)
VARIABLES
    \* inputs of the run
    raw,              \* the Excel batch at the URL: a DataFrame
    load_ok,          \* whether requests.get / pd.read_excel succeed
    today,            \* datetime.today().date()
    tie_order,        \* what the build's quicksort does with equal keys
    ui_participant,   \* sidebar widget state sb_participant (0: untouched)
    ui_week,          \* sidebar widget state sb_week (-1: untouched, 0: All Weeks)
    \* the script
    pc,
    weekly_data,
    current_week,
    participants,
    selected_participant_sb,
    selected_week_str_sb,
    filtered_display_data,
    leaderboard_df,
    biggest_mover,
    combined_data,    \* the Top Runners chart's table
    distance_kpi,
    activity_kpi,
    points_kpi,
    \* the browser
    last_run          \* what the pass before this one displayed (NoRun: nothing yet)

inputs == <<raw, load_ok, today, tie_order, ui_participant, ui_week>>

vars == <<raw, load_ok, today, tie_order, ui_participant, ui_week, pc,
          weekly_data, current_week, participants, selected_participant_sb,
          selected_week_str_sb, filtered_display_data, leaderboard_df,
          biggest_mover, combined_data, distance_kpi, activity_kpi, points_kpi,
          last_run>>

\* weekly_data = None
None == [cols |-> {}, rows |-> <<>>]

\* "All" / "All Weeks"
All == 0

\* the value of last_run before the first pass has ended: nothing displayed
NoRun == [pc |-> "none"]


\* a value of pc: the script stopped on an uncaught exception
Crashed == "crashed"

(***************************************************************************)
(* load_weekly_data(): the DataFrame read from the URL, or None            *)
(***************************************************************************)
load_weekly_data_result == IF load_ok THEN raw ELSE None

load_weekly_data ==
    /\ pc = "load"
    /\ weekly_data' = load_weekly_data_result
    /\ pc' = "preprocess"
    /\ UNCHANGED <<inputs, last_run, combined_data, current_week, participants, selected_participant_sb,
                   selected_week_str_sb, filtered_display_data, leaderboard_df,
                   biggest_mover, distance_kpi, activity_kpi, points_kpi>>

(***************************************************************************)
(* Data Preprocessing                                                      *)
(***************************************************************************)
\* a slip in the weights: zone 5 counted like zone 4
PointsZone5AsZone4(z) == z[1] * 1 + z[2] * 2 + z[3] * 3 + z[4] * 4 + z[5] * 4

\* weekly_data["Zone 1"] * 1 + ... + weekly_data["Zone 5"] * 5
Points(z) == z[1] * 1 + z[2] * 2 + z[3] * 3 + z[4] * 4 + z[5] * 5

\* a slip: the coerced zone cells are not filled, a missing one stays missing
ZoneCellNotFilled(cols, i, c) ==
    IF zone_cols[i] \notin cols THEN 0 ELSE to_numeric(c)

\* the zone loop: an absent column becomes 0, a present one is
\* pd.to_numeric(..., errors='coerce').fillna(0)
ZoneCell(cols, i, c) ==
    IF zone_cols[i] \notin cols THEN 0 ELSE fillna0(to_numeric(c))

\* a slip: the numeric columns are filled like the zone columns
NumericCellFilled(cols, col, c) == IF col \in cols THEN fillna0(to_numeric(c)) ELSE c

\* the numeric_cols loop: a present column is coerced, NaN stays NaN
NumericCell(cols, col, c) == IF col \in cols THEN to_numeric(c) ELSE c

\* a slip: Points is computed from the zone cells before they are filled
PreprocessRowPointsFirst(cols, r) ==
    LET z == [i \in 1..5 |-> ZoneCell(cols, i, r.Zone[i])]
        unfilled == [i \in 1..5 |->
                        IF zone_cols[i] \in cols THEN to_numeric(r.Zone[i]) ELSE NaN]
    IN [Date          |-> r.Date,
        Participant   |-> r.Participant,
        WorkoutType   |-> r.WorkoutType,
        TotalDuration |-> NumericCell(cols, "Total Duration", r.TotalDuration),
        TotalDistance |-> NumericCell(cols, "Total Distance", r.TotalDistance),
        Zone          |-> z,
        Points        |-> IF \E i \in 1..5 : unfilled[i] = NaN THEN NaN
                          ELSE Points(unfilled),
        Week          |-> NumericCell(cols, "Week", r.Week)]

PreprocessRow(cols, r) ==
    LET z == [i \in 1..5 |-> ZoneCell(cols, i, r.Zone[i])]
    IN [Date          |-> r.Date,
        Participant   |-> r.Participant,
        WorkoutType   |-> r.WorkoutType,
        TotalDuration |-> NumericCell(cols, "Total Duration", r.TotalDuration),
        TotalDistance |-> NumericCell(cols, "Total Distance", r.TotalDistance),
        Zone          |-> z,
        Points        |-> Points(z),
        Week          |-> NumericCell(cols, "Week", r.Week)]

\* the column col of rows, as the sequence of its cells
Column(rows, col) ==
    [i \in 1..Len(rows) |->
        CASE col = "Date"   -> rows[i].Date
          [] col = "Points" -> rows[i].Points]

\* a slip: the rows whose date did not parse are kept
ParsedSortedWithoutDropna(rows, order) ==
    LET parsed == [i \in 1..Len(rows) |-> [rows[i] EXCEPT !.Date = to_datetime(@)]]
    IN sort_values_desc(parsed, Column(parsed, "Date"), order)

\* a slip: the rows are left in the order of the batch
ParsedUnsorted(rows, order) ==
    LET parsed == [i \in 1..Len(rows) |-> [rows[i] EXCEPT !.Date = to_datetime(@)]]
    IN SelectSeq(parsed, LAMBDA r : r.Date # NaN)

\* the rows after to_datetime, dropna(subset=["Date"]) and sort_values
ParsedSorted(rows, order) ==
    LET parsed == [i \in 1..Len(rows) |-> [rows[i] EXCEPT !.Date = to_datetime(@)]]
        kept   == SelectSeq(parsed, LAMBDA r : r.Date # NaN)
    IN sort_values_desc(kept, Column(kept, "Date"), order)

PreprocessedData(df, order) ==
    LET srt == ParsedSorted(df.rows, order)
    IN [cols |-> df.cols \cup ZoneColSet \cup {"Points"},
        rows |-> [i \in 1..Len(srt) |-> PreprocessRow(df.cols, srt[i])]]

Preprocess ==
    /\ pc = "preprocess"
    /\ IF ~empty(weekly_data)
       THEN IF "Date" \notin weekly_data.cols
            THEN \* weekly_data["Date"]: KeyError
                 /\ pc' = Crashed
                 /\ UNCHANGED weekly_data
            ELSE /\ weekly_data' = PreprocessedData(weekly_data, tie_order)
                 /\ pc' = "week"
       ELSE /\ weekly_data' = [cols |-> expected_cols, rows |-> <<>>]
            /\ pc' = "week"
    /\ UNCHANGED <<inputs, last_run, combined_data, current_week, participants, selected_participant_sb,
                   selected_week_str_sb, filtered_display_data, leaderboard_df,
                   biggest_mover, distance_kpi, activity_kpi, points_kpi>>

(***************************************************************************)
(* Dynamic Week Calculation                                                *)
(***************************************************************************)
Min(a, b) == IF a <= b THEN a ELSE b
Max(a, b) == IF a >= b THEN a ELSE b

\* a slip: the week number is not clamped to the competition's weeks
get_current_week_unclamped(start_date_dt, d) ==
    IF d < start_date_dt THEN 1
    ELSE ((d - start_date_dt) \div 7) + 1

\* a slip: before the start the week is 0, as the comment in the code considers
get_current_week_zero_before_start(start_date_dt, d) ==
    IF d < start_date_dt THEN 0
    ELSE LET days_since_start == d - start_date_dt
             week_number      == (days_since_start \div 7) + 1
         IN Min(Max(week_number, 1), competition_total_weeks)

get_current_week(start_date_dt, d) ==
    IF d < start_date_dt THEN 1
    ELSE LET days_since_start == d - start_date_dt
             week_number      == (days_since_start \div 7) + 1
         IN Min(Max(week_number, 1), competition_total_weeks)

WeekCalculation ==
    /\ pc = "week"
    /\ current_week' = get_current_week(competition_start_datetime, today)
    /\ pc' = "sidebar"
    /\ UNCHANGED <<inputs, last_run, combined_data, weekly_data, participants, selected_participant_sb,
                   selected_week_str_sb, filtered_display_data, leaderboard_df,
                   biggest_mover, distance_kpi, activity_kpi, points_kpi>>

(***************************************************************************)
(* Sidebar Filters                                                         *)
(***************************************************************************)
\* weekly_data["Participant"].unique()
unique_participants(df) == {df.rows[i].Participant : i \in 1..Len(df.rows)}

\* sorted() of names and a float NaN: '<' is not supported between them
SortedRaises(S) == NaN \in S /\ S # {NaN}

\* all_weeks_options ("All Weeks" is 0, "Week i" is i) and their default
all_weeks_options == {All} \cup (1..8)

default_week(cw) == IF cw \in 1..8 THEN cw ELSE All

SidebarFilters ==
    /\ pc = "sidebar"
    /\ IF ~empty(weekly_data)
       THEN IF "Participant" \notin weekly_data.cols
               \/ SortedRaises(unique_participants(weekly_data))
            THEN \* KeyError, or TypeError from sorted()
                 /\ pc' = Crashed
                 /\ UNCHANGED <<participants, selected_participant_sb, selected_week_str_sb>>
            ELSE /\ participants' = sorted(unique_participants(weekly_data))
                 /\ selected_participant_sb' =
                        IF ui_participant \in unique_participants(weekly_data)
                        THEN ui_participant ELSE All
                 /\ selected_week_str_sb' =
                        IF ui_week \in all_weeks_options
                        THEN ui_week ELSE default_week(current_week)
                 /\ pc' = "log"
       ELSE /\ selected_participant_sb' = All
            /\ selected_week_str_sb' = All
            /\ pc' = "tabs_empty"
            /\ UNCHANGED participants
    /\ UNCHANGED <<inputs, last_run, combined_data, weekly_data, current_week, filtered_display_data,
                   leaderboard_df, biggest_mover, distance_kpi, activity_kpi,
                   points_kpi>>

(***************************************************************************)
(* Weekly Activity Data Log                                                *)
(***************************************************************************)
\* the rows with their Date formatted for display, if there is a Date column
DatesFormatted(cols, rows) ==
    IF "Date" \in cols
    THEN [i \in 1..Len(rows) |-> [rows[i] EXCEPT !.Date = strftime(@)]]
    ELSE rows

\* the week filter, and the participant filter, select rows into a new table
WeekFilterApplies(df, week_sel) == week_sel # All /\ "Week" \in df.cols

ParticipantFilterApplies(df, participant_sel) ==
    participant_sel # All /\ "Participant" \in df.cols

FilteredDisplayData(df, week_sel, participant_sel) ==
    LET byWeek ==
            IF WeekFilterApplies(df, week_sel)
            THEN SelectSeq(df.rows, LAMBDA r : to_numeric(r.Week) = week_sel)
            ELSE df.rows
        byParticipant ==
            IF ParticipantFilterApplies(df, participant_sel)
            THEN SelectSeq(byWeek, LAMBDA r : r.Participant = participant_sel)
            ELSE byWeek
    IN [cols |-> df.cols, rows |-> DatesFormatted(df.cols, byParticipant)]

\* a slip: the view works on the table itself, which is left as the view's
\* statements made it
left_without_copy(df, worked) == worked

\* df.copy(): the view's assignments go to the copy, df is left as it was
left_by_copy(df, worked) == df

\* the table first bound to filtered_display_data after the section: its
\* Week made numeric if a week is selected, and its Date formatted unless a
\* filter has put a new table in its place before
ActivityLogWorked(df, week_sel, participant_sel) ==
    LET coerced ==
            IF WeekFilterApplies(df, week_sel)
            THEN [i \in 1..Len(df.rows) |-> [df.rows[i] EXCEPT !.Week = to_numeric(@)]]
            ELSE df.rows
    IN [cols |-> df.cols,
        rows |-> IF WeekFilterApplies(df, week_sel)
                    \/ ParticipantFilterApplies(df, participant_sel)
                 THEN coerced
                 ELSE DatesFormatted(df.cols, coerced)]

ActivityLog ==
    /\ pc = "log"
    /\ filtered_display_data' =
           FilteredDisplayData(weekly_data, selected_week_str_sb, selected_participant_sb)
    /\ weekly_data' =
           left_by_copy(weekly_data,
               ActivityLogWorked(weekly_data, selected_week_str_sb, selected_participant_sb))
    /\ pc' = "leaderboard"
    /\ UNCHANGED <<inputs, last_run, combined_data, current_week, participants,
                   selected_participant_sb, selected_week_str_sb, leaderboard_df,
                   biggest_mover, distance_kpi, activity_kpi, points_kpi>>


(***************************************************************************)
(* Competition Leaderboard Calculation                                     *)
(***************************************************************************)
\* the participants of rows in order of first appearance
RECURSIVE FirstAppearances(_, _)
FirstAppearances(rows, seen) ==
    IF rows = <<>> THEN <<>>
    ELSE IF Head(rows).Participant \in seen
         THEN FirstAppearances(Tail(rows), seen)
         ELSE <<Head(rows).Participant>>
                  \o FirstAppearances(Tail(rows), seen \cup {Head(rows).Participant})

\* a slip: groupby(..., sort=False), the groups in order of first appearance
GroupPointsUnsorted(rows) ==
    LET keys == FirstAppearances(rows, {NaN})
    IN [k \in 1..Len(keys) |->
            LET mine == SelectSeq(rows, LAMBDA r : r.Participant = keys[k])
            IN [Participant |-> keys[k],
                Points      |-> sum([i \in 1..Len(mine) |-> mine[i].Points])]]

\* a slip: groupby(..., dropna=False), a group for the missing participant too
GroupPointsKeepingMissing(rows) ==
    LET keys == sorted({rows[i].Participant : i \in 1..Len(rows)})
    IN [k \in 1..Len(keys) |->
            LET mine == SelectSeq(rows, LAMBDA r : r.Participant = keys[k])
            IN [Participant |-> keys[k],
                Points      |-> sum([i \in 1..Len(mine) |-> mine[i].Points])]]

\* data.groupby("Participant")["Points"].sum().reset_index(): one row per
\* non-missing participant, in ascending order of the key
GroupPoints(rows) ==
    LET keys == sorted({rows[i].Participant : i \in 1..Len(rows)} \ {NaN})
    IN [k \in 1..Len(keys) |->
            LET mine == SelectSeq(rows, LAMBDA r : r.Participant = keys[k])
            IN [Participant |-> keys[k],
                Points      |-> sum([i \in 1..Len(mine) |-> mine[i].Points])]]

\* a slip: a week number beyond the competition is counted in its nearest week
week_points_clamped(rows, week_num, p) ==
    LET mine == SelectSeq(rows, LAMBDA r :
                    /\ to_numeric(r.Week) # NaN
                    /\ Min(Max(to_numeric(r.Week), 1), 8) = week_num
                    /\ r.Participant = p)
    IN IF mine = <<>> THEN NaN ELSE sum([i \in 1..Len(mine) |-> mine[i].Points])

\* data[data["Week"] == week_num].groupby("Participant")["Points"].sum(),
\* looked up for participant p: NaN when p has no row in that week
week_points(rows, week_num, p) ==
    LET mine == SelectSeq(rows, LAMBDA r : to_numeric(r.Week) = week_num /\ r.Participant = p)
    IN IF mine = <<>> THEN NaN ELSE sum([i \in 1..Len(mine) |-> mine[i].Points])

\* leaderboard["Participant"].map(week_points).fillna(0).astype(int)
WeekTotal(rows, week_num, p) == astype_int(fillna0(week_points(rows, week_num, p)))

LeaderboardBaseCols == {"Rank", "Participant", "Points", "Points Behind"}

\* a slip: the grouped totals are left in grouping order
SortLeaderboardSkipped(leaderboard, order) == leaderboard

\* a slip: a sort that leaves ties in another order on every other pass
SortLeaderboardTiesUnsettled(leaderboard, order) ==
    sort_values_desc(leaderboard, Column(leaderboard, "Points"),
                     IF last_run = NoRun THEN "keep" ELSE "flip")

\* leaderboard.sort_values(by="Points", ascending=False)
SortLeaderboard(leaderboard, order) ==
    sort_values_desc(leaderboard, Column(leaderboard, "Points"), order)

\* a slip: the top score read from the last row
max_points_of_last_row(leaderboard) == leaderboard[Len(leaderboard)].Points

\* max_points = leaderboard["Points"].iloc[0]
max_points_of(leaderboard) == leaderboard[1].Points

\* the table passed as data after the call: data['Week'] is assigned in it
LeaderboardWorked(data) ==
    IF empty(data) \/ "Participant" \notin data.cols \/ "Points" \notin data.cols
       \/ "Week" \notin data.cols
    THEN data
    ELSE [data EXCEPT !.rows =
             [i \in 1..Len(data.rows) |-> [data.rows[i] EXCEPT !.Week = to_numeric(@)]]]

calculate_leaderboard(data, total_weeks, order) ==
    IF empty(data) \/ "Participant" \notin data.cols \/ "Points" \notin data.cols
    THEN [cols |-> LeaderboardBaseCols, rows |-> <<>>]
    ELSE LET leaderboard == SortLeaderboard(GroupPoints(data.rows), order)
             max_points  == max_points_of(leaderboard)
             has_week    == "Week" \in data.cols
         IN [cols |-> LeaderboardBaseCols \cup
                      (IF has_week THEN {WeekTotalsCol[w] : w \in 1..total_weeks} ELSE {}),
             rows |-> [k \in 1..Len(leaderboard) |->
                 [Rank         |-> k,
                  Participant  |-> leaderboard[k].Participant,
                  Points       |-> leaderboard[k].Points,
                  PointsBehind |-> max_points - leaderboard[k].Points,
                  WeekTotals   |->
                      IF has_week
                      THEN [w \in 1..total_weeks |->
                                WeekTotal(data.rows, w, leaderboard[k].Participant)]
                      ELSE <<>>]]]

Leaderboard ==
    /\ pc = "leaderboard"
    /\ leaderboard_df' = calculate_leaderboard(weekly_data, competition_total_weeks, tie_order)
    /\ weekly_data' = left_by_copy(weekly_data, LeaderboardWorked(weekly_data))
    /\ pc' = "mover"
    /\ UNCHANGED <<inputs, last_run, combined_data, current_week, participants,
                   selected_participant_sb, selected_week_str_sb,
                   filtered_display_data, biggest_mover, distance_kpi,
                   activity_kpi, points_kpi>>

(***************************************************************************)
(* Biggest Mover Highlight                                                 *)
(***************************************************************************)
\* Series.idxmax(): the first row that holds the maximum
idxmax(cells) ==
    CHOOSE i \in 1..Len(cells) :
        /\ \A j \in 1..Len(cells) : cells[j] <= cells[i]
        /\ \A j \in 1..(i - 1) : cells[j] < cells[i]

NoMover(kind) == [kind |-> kind, Participant |-> NaN, value |-> NaN]

BiggestMoverHighlight(lb, cw) ==
    IF cw > 0 /\ ~empty(lb)
    THEN IF WeekTotalsCol[cw] \in lb.cols
         THEN LET col == [i \in 1..Len(lb.rows) |-> lb.rows[i].WeekTotals[cw]]
                  top == idxmax(col)
              IN [kind        |-> "mover",
                  Participant |-> lb.rows[top].Participant,
                  value       |-> col[top]]
         ELSE NoMover("column_missing")
    ELSE IF cw = 0 THEN NoMover("not_started")
    ELSE NoMover("leaderboard_needed")

BiggestMover ==
    /\ pc = "mover"
    /\ biggest_mover' = BiggestMoverHighlight(leaderboard_df, current_week)
    /\ pc' = "runners"
    /\ UNCHANGED <<inputs, last_run, combined_data, weekly_data, current_week, participants,
                   selected_participant_sb, selected_week_str_sb,
                   filtered_display_data, leaderboard_df, distance_kpi,
                   activity_kpi, points_kpi>>

(***************************************************************************)
(* Week-to-date comparisons                                                *)
(***************************************************************************)
\* a workout type is its text; the characters of the types that occur
Chars(t) ==
    CASE t = "Run"       -> <<"R", "u", "n">>
      [] t = "Trail run" -> <<"T", "r", "a", "i", "l", " ", "r", "u", "n">>
      [] t = "RUNNING"   -> <<"R", "U", "N", "N", "I", "N", "G">>
      [] t = "Bike"      -> <<"B", "i", "k", "e">>
      [] t = "Rowing"    -> <<"R", "o", "w", "i", "n", "g">>

lower(c) ==
    CASE c = "R" -> "r" [] c = "U" -> "u" [] c = "N" -> "n" [] c = "T" -> "t"
      [] c = "B" -> "b" [] c = "I" -> "i" [] c = "G" -> "g" [] OTHER -> c

\* a slip: case=True, only the text "Run" as written matches
str_contains_run_case_sensitive(t) ==
    LET s   == Chars(t)
        pat == <<"R", "u", "n">>
    IN \E k \in 0..(Len(s) - 3) : \A i \in 1..3 : s[k + i] = pat[i]

\* Series.str.contains("Run", case=False, na=False)
str_contains_run(t) ==
    LET s   == [i \in 1..Len(Chars(t)) |-> lower(Chars(t)[i])]
        pat == <<"r", "u", "n">>
    IN \E k \in 0..(Len(s) - 3) : \A i \in 1..3 : s[k + i] = pat[i]

\* a slip: this week so far is compared with the whole of last week
WtdWindowsWholePreviousWeek(today_date, start_date_dt) ==
    LET days_since_start      == today_date - start_date_dt
        current_week_start_dt == start_date_dt + 7 * (days_since_start \div 7)
    IN [current_week_start_dt |-> current_week_start_dt,
        current_period_end_dt |-> today_date,
        prev_week_start_dt    |-> current_week_start_dt - 7,
        prev_period_end_dt    |-> current_week_start_dt - 1]

\* the four window dates computed from today
WtdWindows(today_date, start_date_dt) ==
    LET days_since_start          == today_date - start_date_dt
        current_week_num_for_calc == (days_since_start \div 7) + 1
        day_of_current_week       == days_since_start % 7
        current_week_start_dt     == start_date_dt + 7 * (current_week_num_for_calc - 1)
        prev_week_start_dt        == current_week_start_dt - 7
    IN [current_week_start_dt |-> current_week_start_dt,
        current_period_end_dt |-> current_week_start_dt + day_of_current_week,
        prev_week_start_dt    |-> prev_week_start_dt,
        prev_period_end_dt    |-> prev_week_start_dt + day_of_current_week]

\* (Date >= lo) & (Date <= hi)
InWindow(date, lo, hi) == date >= lo /\ date <= hi

\* df[mask][col].sum(): the cells of the rows dated in [lo, hi], summed
SumInWindow(dates, cells, lo, hi) ==
    sum([i \in 1..Len(dates) |-> IF InWindow(dates[i], lo, hi) THEN cells[i] ELSE NaN])

\* a slip: a rise from a zero baseline reported as no change
pct_change_zero_baseline(current, previous) ==
    IF previous > 0 THEN [num |-> (current - previous) * 100, den |-> previous]
    ELSE [num |-> 0, den |-> 1]

\* the percentage change, as the exact fraction num / den
pct_change(current, previous) ==
    IF previous > 0 THEN [num |-> (current - previous) * 100, den |-> previous]
    ELSE IF current > 0 THEN [num |-> 100, den |-> 1]
    ELSE [num |-> 0, den |-> 1]

NoKpi(status) ==
    [status |-> status, windows |-> NaN, current |-> NaN, previous |-> NaN,
     pct |-> NaN]

\* a slip: the comparison is made without the test of today against the start
WtdKpi_without_start_test(dates, cells, today_date, start_date_dt) ==
    LET w        == WtdWindows(today_date, start_date_dt)
        current  == SumInWindow(dates, cells, w.current_week_start_dt,
                                w.current_period_end_dt)
        previous == SumInWindow(dates, cells, w.prev_week_start_dt,
                                w.prev_period_end_dt)
    IN [status |-> "computed", windows |-> w, current |-> current,
        previous |-> previous, pct |-> pct_change(current, previous)]

\* a comparison of the cells (one per row, dated by dates) in the windows
\* of today
WtdKpi(dates, cells, today_date, start_date_dt) ==
    IF today_date >= start_date_dt
    THEN LET w        == WtdWindows(today_date, start_date_dt)
             current  == SumInWindow(dates, cells, w.current_week_start_dt,
                                     w.current_period_end_dt)
             previous == SumInWindow(dates, cells, w.prev_week_start_dt,
                                     w.prev_period_end_dt)
         IN [status |-> "computed", windows |-> w, current |-> current,
             previous |-> previous, pct |-> pct_change(current, previous)]
    ELSE NoKpi("not_applicable")

\* running_data_group['Total Distance'] after to_numeric(...).fillna(0)
RunDistance(rows) == [i \in 1..Len(rows) |-> fillna0(to_numeric(rows[i].TotalDistance))]

\* .shape[0]: every row counts one activity
OneActivity(rows) == [i \in 1..Len(rows) |-> 1]

DistanceKpi(df, today_date) ==
    IF {"Week", "Total Distance", "Workout Type"} \subseteq df.cols
    THEN LET running_data_group ==
                 SelectSeq(df.rows, LAMBDA r : str_contains_run(r.WorkoutType))
         IN IF running_data_group # <<>>
            THEN WtdKpi(Column(running_data_group, "Date"),
                        RunDistance(running_data_group),
                        today_date, competition_start_datetime)
            ELSE NoKpi("no_running_data")
    ELSE NoKpi("columns_missing")

\* weekly_data_kpi after to_datetime and dropna(subset=["Date"], inplace=True)
KpiWorked(df) ==
    [df EXCEPT !.rows =
        SelectSeq([i \in 1..Len(df.rows) |-> [df.rows[i] EXCEPT !.Date = to_datetime(@)]],
                  LAMBDA r : r.Date # NaN)]

ActivityKpi(df, today_date) ==
    IF ~empty(df)
    THEN WtdKpi(Column(df.rows, "Date"), OneActivity(df.rows),
                today_date, competition_start_datetime)
    ELSE NoKpi("no_data")

\* a slip: the points comparison counts the weeks from the day after the start
PointsKpiFromNextDay(df, today_date) ==
    IF "Points" \in df.cols /\ ~empty(df)
    THEN WtdKpi(Column(df.rows, "Date"), Column(df.rows, "Points"),
                today_date, competition_start_datetime + 1)
    ELSE NoKpi("points_needed")

PointsKpi(df, today_date) ==
    IF "Points" \in df.cols /\ ~empty(df)
    THEN WtdKpi(Column(df.rows, "Date"), Column(df.rows, "Points"),
                today_date, competition_start_datetime)
    ELSE NoKpi("points_needed")

(***************************************************************************)
(* Top Runners by Distance and Duration                                    *)
(***************************************************************************)
\* run_data['Total Duration'] after to_numeric(...).fillna(0)
RunDuration(rows) == [i \in 1..Len(rows) |-> fillna0(to_numeric(rows[i].TotalDuration))]

\* run_data.groupby("Participant")[...].sum(), distance merged with duration
GroupRunTotals(rows) ==
    LET keys == sorted({rows[i].Participant : i \in 1..Len(rows)} \ {NaN})
    IN [k \in 1..Len(keys) |->
            LET mine == SelectSeq(rows, LAMBDA r : r.Participant = keys[k])
            IN [Participant   |-> keys[k],
                TotalDistance |-> sum(RunDistance(mine)),
                TotalDuration |-> sum(RunDuration(mine))]]

\* "Pace (min/mile)" as the exact fraction num / den
Pace(duration, distance) ==
    IF distance > 0 THEN [num |-> duration, den |-> distance]
    ELSE [num |-> 0, den |-> 1]

\* "Formatted Pace": minutes and seconds, or "N/A" (both missing)
FormattedPace(x) ==
    IF x.num > 0
    THEN [minutes |-> x.num \div x.den, seconds |-> ((x.num % x.den) * 60) \div x.den]
    ELSE [minutes |-> NaN, seconds |-> NaN]

NoRunners(status) == [status |-> status, rows |-> <<>>]

RunnersColumns == {"Total Distance", "Workout Type", "Total Duration", "Participant"}

\* run_data: the records whose Workout Type contains "Run"
run_data_of(df) == SelectSeq(df.rows, LAMBDA r : str_contains_run(r.WorkoutType))

\* combined_data.apply(..., axis=1) of a table without rows gives back a
\* table, which cannot be assigned to the one column "Pace (min/mile)"
ApplyRaises(df) ==
    /\ RunnersColumns \subseteq df.cols
    /\ run_data_of(df) # <<>>
    /\ GroupRunTotals(run_data_of(df)) = <<>>

TopRunners(df, order) ==
    IF RunnersColumns \subseteq df.cols
    THEN IF run_data_of(df) # <<>>
         THEN LET totals == GroupRunTotals(run_data_of(df))
                  paced  == [k \in 1..Len(totals) |->
                      [Participant   |-> totals[k].Participant,
                       TotalDistance |-> totals[k].TotalDistance,
                       TotalDuration |-> totals[k].TotalDuration,
                       Pace          |-> Pace(totals[k].TotalDuration,
                                              totals[k].TotalDistance),
                       FormattedPace |-> FormattedPace(Pace(totals[k].TotalDuration,
                                                            totals[k].TotalDistance))]]
              IN [status |-> "computed",
                  rows   |-> sort_values_asc(paced,
                                 [k \in 1..Len(paced) |-> paced[k].TotalDistance], order)]
         ELSE NoRunners("no_running_data")
    ELSE NoRunners("columns_missing")

TopRunnersVisualization ==
    /\ pc = "runners"
    /\ IF ApplyRaises(weekly_data)
       THEN \* ValueError
            /\ pc' = Crashed
            /\ UNCHANGED combined_data
       ELSE /\ combined_data' = TopRunners(weekly_data, tie_order)
            /\ pc' = "distance"
    /\ UNCHANGED <<inputs, last_run, weekly_data, current_week, participants,
                   selected_participant_sb, selected_week_str_sb,
                   filtered_display_data, leaderboard_df, biggest_mover,
                   distance_kpi, activity_kpi, points_kpi>>

GroupDistanceProgress ==
    /\ pc = "distance"
    /\ distance_kpi' = DistanceKpi(weekly_data, today)
    /\ pc' = "activity"
    /\ UNCHANGED <<inputs, last_run, combined_data, weekly_data, current_week, participants,
                   selected_participant_sb, selected_week_str_sb,
                   filtered_display_data, leaderboard_df, biggest_mover,
                   activity_kpi, points_kpi>>

GroupActivityCountProgress ==
    /\ pc = "activity"
    /\ activity_kpi' = ActivityKpi(weekly_data, today)
    /\ weekly_data' = left_by_copy(weekly_data, KpiWorked(weekly_data))
    /\ pc' = "points"
    /\ UNCHANGED <<inputs, last_run, combined_data, current_week, participants,
                   selected_participant_sb, selected_week_str_sb,
                   filtered_display_data, leaderboard_df, biggest_mover,
                   distance_kpi, points_kpi>>

GroupPointsProgress ==
    /\ pc = "points"
    /\ points_kpi' = PointsKpi(weekly_data, today)
    /\ pc' = "done"
    /\ UNCHANGED <<inputs, last_run, combined_data, weekly_data, current_week, participants,
                   selected_participant_sb, selected_week_str_sb,
                   filtered_display_data, leaderboard_df, biggest_mover,
                   distance_kpi, activity_kpi>>

\* the else branch of the Leaderboards tab: no weekly data loaded
NoWeeklyData ==
    /\ pc = "tabs_empty"
    /\ pc' = "done"
    /\ UNCHANGED <<inputs, last_run, combined_data, weekly_data, current_week, participants,
                   selected_participant_sb, selected_week_str_sb,
                   filtered_display_data, leaderboard_df, biggest_mover,
                   distance_kpi, activity_kpi, points_kpi>>

Next ==
    \/ load_weekly_data
    \/ Preprocess
    \/ WeekCalculation
    \/ SidebarFilters
    \/ ActivityLog
    \/ Leaderboard
    \/ BiggestMover
    \/ TopRunnersVisualization
    \/ GroupDistanceProgress
    \/ GroupActivityCountProgress
    \/ GroupPointsProgress
    \/ NoWeeklyData


(***************************************************************************)
(* Inputs of a run: the batch, the clock, the build and the widgets        *)
(***************************************************************************)
\* rows of the leaderboard batches
MaxRows == 3
\* the largest zone cell, in 1/Unit minutes
MaxZone == 3
\* today ranges from DaysBefore days before the start to MaxTodayOffset after
DaysBefore == 3
MaxTodayOffset == 60

\* the date k days after the competition start
Day(k) == competition_start_datetime + k

Row(date, participant, workout, duration, distance, zone, week) ==
    [Date |-> date, Participant |-> participant, WorkoutType |-> workout,
     TotalDuration |-> duration, TotalDistance |-> distance, Zone |-> zone,
     Week |-> week]

\* a cell of a column the batch does not have
Absent(cols, col, c) == IF col \in cols THEN c ELSE NaN

\* a batch with the columns cols: the cells of absent columns are missing
Batch(cols, rows) ==
    [cols |-> cols,
     rows |-> [i \in 1..Len(rows) |->
        [Date          |-> Absent(cols, "Date", rows[i].Date),
         Participant   |-> Absent(cols, "Participant", rows[i].Participant),
         WorkoutType   |-> rows[i].WorkoutType,
         TotalDuration |-> Absent(cols, "Total Duration", rows[i].TotalDuration),
         TotalDistance |-> Absent(cols, "Total Distance", rows[i].TotalDistance),
         Zone          |-> [z \in 1..5 |-> Absent(cols, zone_cols[z], rows[i].Zone[z])],
         Week          |-> Absent(cols, "Week", rows[i].Week)]]]

Input(batch, ok, day, order) ==
    [raw |-> batch, load_ok |-> ok, today |-> day, tie_order |-> order,
     ui_participant |-> All, ui_week |-> -1]

SeqsUpTo(S, n) == UNION {[1..k -> S] : k \in 0..n}

\* zone batches: two rows whose zone cells range over numbers and junk
ZoneTuples ==
    [1..5 -> {0, MaxZone}]
        \cup {<<BadText, NaN, 1, 0, 0>>, <<0 - 1, 0, 0, 0, 0>>, <<1, 1, NaN, BadText, 1>>}

ZoneInputs ==
    {Input(Batch(cols, <<Row(Day(1), 1, "Run", 60, 10, z1, 1),
                         Row(Day(2), 1, "Bike", 60, 10, z2, 1)>>),
           TRUE, Day(3), "keep") :
        z1 \in ZoneTuples, z2 \in ZoneTuples,
        cols \in {RawCols, RawCols \ {"Zone 2", "Zone 5"}}}

\* clock inputs: every today around and after the competition, one small batch
ClockInputs ==
    {Input(batch, ok, Day(k), "keep") :
        batch \in {Batch(RawCols, <<Row(Day(0), 1, "Run", 60, 10, <<1, 1, 1, 1, 1>>, 1)>>),
                   Batch(RawCols, <<>>)},
        ok \in BOOLEAN,
        k \in (0 - DaysBefore)..MaxTodayOffset}

\* leaderboard batches: up to MaxRows rows of three participants (and rows
\* without one), whole and fractional points, weeks inside and outside 1..8
BoardRows ==
    {Row(Day(1), p, "Run", 60, 10, <<zw[1], 0, 0, 0, 0>>, zw[2]) :
        p \in {1, 2, 3}, zw \in {<<1, 1>>, <<2, 2>>, <<4, 9>>}}
        \cup {Row(Day(1), NaN, "Run", 60, 10, <<2, 0, 0, 0, 0>>, NaN),
              Row(Day(1), 2, "Run", 60, 10, <<2, 0, 0, 0, 0>>, BadText)}

BoardInputs ==
    {Input(Batch(RawCols, rows), TRUE, Day(8), order) :
        rows \in SeqsUpTo(BoardRows, MaxRows), order \in TieOrders}

\* trend batches: two activities on days of the first two weeks
TrendRows ==
    {Row(Day(d), 1, a[1], 60, a[2], a[3], 1) :
        d \in {0, 3, 7, 10},
        a \in {<<"Run", 10 * Unit, <<0, 0, 0, 0, 0>>>>,
               <<"Trail run", 5 * Unit, <<2, 0, 0, 0, 1>>>>,
               <<"RUNNING", BadText, <<0, 0, 0, 0, 0>>>>,
               <<"Bike", 4 * Unit, <<0, 1, 0, 0, 0>>>>}}

TrendInputs ==
    {Input(Batch(RawCols, rows), TRUE, Day(k), "keep") :
        rows \in [1..2 -> TrendRows], k \in {0 - 1, 0, 3, 7, 10, 13, 14}}

\* batches that lack a column, or whose dates are not dates
ShapeRows ==
    {<<Row(d1, 1, "Run", 60, 10, <<1, 0, 0, 0, 0>>, 2),
       Row(d2, 2, "Trail run", BadText, NaN, <<0, 1, 0, 0, 0>>, 2)>> :
        d1 \in {Day(1), BadText, NaN}, d2 \in {Day(8), BadText}}
        \cup {<<>>}

ShapeInputs ==
    {Input(Batch(cols, rows), TRUE, Day(k), "keep") :
        cols \in {RawCols \ {c} : c \in RawCols} \cup {RawCols},
        rows \in ShapeRows,
        k \in {0 - 1, 8}}

Inputs == ZoneInputs \cup ClockInputs \cup BoardInputs \cup TrendInputs \cup ShapeInputs

\* a comparison that has not run
Unset == NoKpi("unset")

\* the state in which a pass of the script starts
FreshScript ==
    /\ pc = "load"
    /\ weekly_data = None
    /\ current_week = NaN
    /\ participants = <<>>
    /\ selected_participant_sb = All
    /\ selected_week_str_sb = All
    /\ filtered_display_data = None
    /\ leaderboard_df = None
    /\ biggest_mover = NoMover("unset")
    /\ combined_data = NoRunners("unset")
    /\ distance_kpi = Unset
    /\ activity_kpi = Unset
    /\ points_kpi = Unset

Init ==
    /\ \E in \in Inputs :
        /\ raw = in.raw
        /\ load_ok = in.load_ok
        /\ today = in.today
        /\ tie_order = in.tie_order
        /\ ui_participant = in.ui_participant
        /\ ui_week = in.ui_week
    /\ FreshScript
    /\ last_run = NoRun

Spec == Init /\ [][Next]_vars

\* calculate_leaderboard on its own: the function applied to any table, also
\* to the tables the script never passes to it (no rows, no Participant or
\* no Week column, None)
LeaderboardTables ==
    {PreprocessedData(Batch(cols, rows), order) :
        cols \in {RawCols, RawCols \ {"Participant"}, RawCols \ {"Week"}},
        rows \in SeqsUpTo(BoardRows, MaxRows),
        order \in TieOrders}
        \cup {None, [cols |-> expected_cols, rows |-> <<>>]}

LeaderboardInit ==
    /\ weekly_data \in LeaderboardTables
    /\ tie_order \in TieOrders
    /\ pc = "leaderboard"
    /\ raw = None
    /\ load_ok = TRUE
    /\ today = Day(8)
    /\ ui_participant = All
    /\ ui_week = 0 - 1
    /\ current_week = get_current_week(competition_start_datetime, Day(8))
    /\ participants = <<>>
    /\ selected_participant_sb = All
    /\ selected_week_str_sb = All
    /\ filtered_display_data = None
    /\ leaderboard_df = None
    /\ biggest_mover = NoMover("unset")
    /\ combined_data = NoRunners("unset")
    /\ distance_kpi = Unset
    /\ activity_kpi = Unset
    /\ points_kpi = Unset
    /\ last_run = NoRun

LeaderboardSpec == LeaderboardInit /\ [][Leaderboard]_vars

(***************************************************************************)
(* A second pass.  Streamlit runs the script again from its first line     *)
(* when a widget of the page changes (the two sidebar selectboxes); the    *)
(* batch is fetched again and every table is rebuilt.                      *)
(***************************************************************************)
\* what a pass leaves on the page
Displayed ==
    [pc                    |-> pc,
     weekly_data           |-> weekly_data,
     current_week          |-> current_week,
     filtered_display_data |-> filtered_display_data,
     leaderboard_df        |-> leaderboard_df,
     biggest_mover         |-> biggest_mover,
     combined_data         |-> combined_data,
     distance_kpi          |-> distance_kpi,
     activity_kpi          |-> activity_kpi,
     points_kpi            |-> points_kpi]

\* the selections a user makes between the passes
UiParticipants == {All, 1, 2}

UiWeeks == {0 - 1, All, 2}

Rerun ==
    /\ pc \in {"done", Crashed}
    /\ last_run = NoRun
    /\ last_run' = Displayed
    /\ ui_participant' \in UiParticipants
    /\ ui_week' \in UiWeeks
    /\ pc' = "load"
    /\ weekly_data' = None
    /\ current_week' = NaN
    /\ participants' = <<>>
    /\ selected_participant_sb' = All
    /\ selected_week_str_sb' = All
    /\ filtered_display_data' = None
    /\ leaderboard_df' = None
    /\ biggest_mover' = NoMover("unset")
    /\ combined_data' = NoRunners("unset")
    /\ distance_kpi' = Unset
    /\ activity_kpi' = Unset
    /\ points_kpi' = Unset
    /\ UNCHANGED <<raw, load_ok, today, tie_order>>

RerunNext == Next \/ Rerun

\* the batches of the two-pass runs: leaderboard batches of fewer rows (with
\* ties in Date and in Points) and the batches that lack a column
RerunInputs ==
    {in \in BoardInputs : Len(in.raw.rows) < MaxRows} \cup ShapeInputs

RerunInit ==
    /\ \E in \in RerunInputs :
        /\ raw = in.raw
        /\ load_ok = in.load_ok
        /\ today = in.today
        /\ tie_order = in.tie_order
        /\ ui_participant = in.ui_participant
        /\ ui_week = in.ui_week
    /\ FreshScript
    /\ last_run = NoRun

RerunSpec == RerunInit /\ [][RerunNext]_vars

TypeOK ==
    /\ pc \in {"load", "preprocess", "week", "sidebar", "log", "leaderboard",
               "mover", "runners", "distance", "activity", "points", "tabs_empty",
               "done",
               Crashed}
    /\ tie_order \in TieOrders


(***************************************************************************)
(* Properties                                                              *)
(***************************************************************************)
\* the preprocessing has produced the normalized table
Normalized == pc \notin {"load", "preprocess"} /\ "Points" \in weekly_data.cols

\* the week calculation has run (a crash in the preprocessing stops the script before it)
WeekComputed == pc \notin {"load", "preprocess", "week"} /\ current_week # NaN

LeaderboardComputed ==
    pc \in {"mover", "runners", "distance", "activity", "points", "done"}

MoverComputed == pc \in {"runners", "distance", "activity", "points", "done"}

Rows == weekly_data.rows

Board == leaderboard_df.rows

NonNegativeZones(r) == \A i \in 1..5 : r.Zone[i] >= 0

\* r and q hold the same minutes in every zone but zone i
SameButZone(r, q, i) == \A k \in (1..5) \ {i} : r.Zone[k] = q.Zone[k]

\* C1: every record of the normalized table whose zone minutes are all >= 0
\* has Points = z1 + 2*z2 + 3*z3 + 4*z4 + 5*z5, and of two such records
\* that differ in one zone only, the one with more minutes in that zone has
\* at least as many Points.
C1_PointsWeightedSum ==
    Normalized =>
        \A a \in 1..Len(Rows) :
            NonNegativeZones(Rows[a]) =>
                /\ Rows[a].Points =
                       Rows[a].Zone[1] + 2 * Rows[a].Zone[2] + 3 * Rows[a].Zone[3]
                           + 4 * Rows[a].Zone[4] + 5 * Rows[a].Zone[5]
                /\ \A b \in 1..Len(Rows) : \A i \in 1..5 :
                       ( /\ NonNegativeZones(Rows[b])
                         /\ SameButZone(Rows[a], Rows[b], i)
                         /\ Rows[a].Zone[i] <= Rows[b].Zone[i] )
                           => Rows[a].Points <= Rows[b].Points

\* two scored records that differ in zone 5 only, by MaxZone minutes
C1_Witness ==
    /\ Normalized
    /\ \E a, b \in 1..Len(Rows) :
           /\ NonNegativeZones(Rows[a]) /\ NonNegativeZones(Rows[b])
           /\ SameButZone(Rows[a], Rows[b], 5)
           /\ Rows[a].Zone[5] < Rows[b].Zone[5]
           /\ Rows[a].Zone[2] > 0
           /\ Rows[b].Points = Rows[a].Points + 5 * MaxZone

\* the start S, the last day E1 of week 1 and the clamp of the claims
S == competition_start_datetime

E1 == S + 6

Clamp(x, lo, hi) == IF x < lo THEN lo ELSE IF x > hi THEN hi ELSE x

\* C2: the current week is 1 before S and in [S, E1], and from E1 + 1 on it
\* is 2 + floor((today - (E1 + 1)) / 7) clamped to [1, 8]: 2 on E1 + 1, 3 on
\* E1 + 8, 8 from seven full weeks after E1 + 1 on, and always in 1..8.
C2_WeekAssignment ==
    WeekComputed =>
        /\ today < S => current_week = 1
        /\ (S <= today /\ today <= E1) => current_week = 1
        /\ today > E1 => current_week = Clamp(2 + ((today - (E1 + 1)) \div 7), 1, 8)
        /\ today = E1 + 1 => current_week = 2
        /\ today = E1 + 8 => current_week = 3
        /\ today - (E1 + 1) >= 7 * 7 => current_week = 8
        /\ current_week \in 1..8

\* a today more than seven full weeks after E1 + 1, clamped to week 8
C2_Witness ==
    /\ WeekComputed
    /\ today - (E1 + 1) > 7 * 7
    /\ 2 + ((today - (E1 + 1)) \div 7) > 8
    /\ current_week = 8

\* today is a date on which the week number is larger than the day before
WeekIncreases == today > S /\ current_week > get_current_week(S, today - 1)

Monday_of(d) == d - weekday(d)

\* the sum of the cells of the rows dated in [lo, hi]
WindowSum(rows, cells, lo, hi) ==
    LET inside == {i \in 1..Len(rows) : lo <= rows[i].Date /\ rows[i].Date <= hi}
    IN sum([k \in 1..Len(sorted(inside)) |-> cells[sorted(inside)[k]]])

RunRows == SelectSeq(Rows, LAMBDA r : str_contains_run(r.WorkoutType))

\* a comparison made over the Monday-based windows of the claim
OverMondayWindows(kpi, rows, cells) ==
    LET m == Monday_of(today)
    IN /\ kpi.windows.current_week_start_dt = m
       /\ kpi.windows.current_period_end_dt = today
       /\ kpi.windows.prev_week_start_dt = m - 7
       /\ kpi.windows.prev_period_end_dt = (m - 7) + (today - m)
       /\ kpi.current = WindowSum(rows, cells, m, today)
       /\ kpi.previous = WindowSum(rows, cells, m - 7, (m - 7) + (today - m))

\* C4 as claimed: for today on or after the start, each week-to-date
\* comparison takes its current value over [Monday_of(today), today] and its
\* previous value over the same span of days one week earlier.
C4_WindowsFromMonday ==
    today >= S =>
        /\ distance_kpi.status = "computed" =>
               OverMondayWindows(distance_kpi, RunRows, RunDistance(RunRows))
        /\ activity_kpi.status = "computed" =>
               OverMondayWindows(activity_kpi, Rows, OneActivity(Rows))
        /\ points_kpi.status = "computed" =>
               OverMondayWindows(points_kpi, Rows, Column(Rows, "Points"))

\* the sum of a leaderboard row's per-week columns (0 when it has none)
WeekColumnsSum(row) == sum([w \in 1..Len(row.WeekTotals) |-> row.WeekTotals[w]])

\* C5 as claimed: the Points total of every leaderboard row equals the sum
\* of its columns 'Week 1 Totals' .. 'Week 8 Totals'.
C5_TotalIsSumOfWeeks ==
    LeaderboardComputed =>
        \A i \in 1..Len(Board) : Board[i].Points = WeekColumnsSum(Board[i])

\* C6: the leaderboard rows are in non-increasing order of Points and the
\* Rank column is 1, 2, ..., N in row order.
C6_SortedAndRanked ==
    LeaderboardComputed =>
        /\ \A i, j \in 1..Len(Board) : i < j => Board[i].Points >= Board[j].Points
        /\ \A i \in 1..Len(Board) : Board[i].Rank = i

\* three ranked participants, of whom a later group key leads
C6_Witness ==
    /\ LeaderboardComputed
    /\ Len(Board) = 3
    /\ Board[1].Points > Board[2].Points
    /\ Board[2].Points > Board[3].Points
    /\ Board[1].Participant > Board[3].Participant

\* C7 as claimed: Points Behind is the leader's total minus the row's total,
\* is 0 for exactly the rank-1 row and is non-negative for the others.
C7_BehindZeroOnlyAtRankOne ==
    LeaderboardComputed =>
        \A i \in 1..Len(Board) :
            /\ Board[i].PointsBehind = Board[1].Points - Board[i].Points
            /\ Board[i].PointsBehind = 0 <=> Board[i].Rank = 1
            /\ Board[i].PointsBehind >= 0

\* the largest total on the leaderboard
LeaderTotal ==
    CHOOSE m \in {Board[i].Points : i \in 1..Len(Board)} :
        \A i \in 1..Len(Board) : Board[i].Points <= m

\* C7 as amended: Points Behind is the leader's total minus the row's total;
\* it is 0 for exactly the rows whose total equals the leader's (the rank-1
\* row and every row tied with it) and positive for every other row.
C7_BehindZeroAtLeaderTotal ==
    LeaderboardComputed =>
        \A i \in 1..Len(Board) :
            /\ Board[i].PointsBehind = LeaderTotal - Board[i].Points
            /\ Board[i].PointsBehind = 0 <=> Board[i].Points = Board[1].Points
            /\ Board[i].Rank = 1 => Board[i].PointsBehind = 0
            /\ Board[i].PointsBehind >= 0

\* two participants tied for the lead and a third behind them
C7_Witness ==
    /\ LeaderboardComputed
    /\ Len(Board) = 3
    /\ Board[2].PointsBehind = 0
    /\ Board[2].Rank = 2
    /\ Board[3].PointsBehind > 0

\* the index of the first row of the table that names participant p
FirstAppearance(rows, p) ==
    CHOOSE i \in 1..Len(rows) :
        /\ rows[i].Participant = p
        /\ \A j \in 1..(i - 1) : rows[j].Participant # p

\* C8 as claimed: participants with identical totals are in the order of
\* their first appearance in the table given to calculate_leaderboard.
C8_TiesInFirstAppearanceOrder ==
    LeaderboardComputed =>
        \A i, j \in 1..Len(Board) :
            (i < j /\ Board[i].Points = Board[j].Points) =>
                FirstAppearance(Rows, Board[i].Participant)
                    < FirstAppearance(Rows, Board[j].Participant)

\* C8 as amended: where the sort keeps equal keys in their incoming order,
\* participants with identical totals are in ascending order of participant
\* name (the order of the grouping), wherever they first appear in the table.
C8_TiesInNameOrder ==
    (LeaderboardComputed /\ tie_order = "keep") =>
        \A i, j \in 1..Len(Board) :
            (i < j /\ Board[i].Points = Board[j].Points) =>
                Board[i].Participant < Board[j].Participant

\* two tied participants, the one later in name order first in the table
C8_Witness ==
    /\ LeaderboardComputed
    /\ tie_order = "keep"
    /\ \E i, j \in 1..Len(Board) :
           /\ i < j
           /\ Board[i].Points = Board[j].Points
           /\ Board[i].Participant < Board[j].Participant
           /\ FirstAppearance(Rows, Board[j].Participant)
                  < FirstAppearance(Rows, Board[i].Participant)

\* the current week's column of the leaderboard
CurrentWeekColumn == [i \in 1..Len(Board) |-> Board[i].WeekTotals[current_week]]

\* C9 as claimed: the biggest mover is a participant with the maximum of the
\* current week's column, and when every value of that column is 0 the view
\* reports no mover and names no participant.
C9_NoMoverWhenAllZero ==
    ( /\ MoverComputed
      /\ Board # <<>>
      /\ WeekTotalsCol[current_week] \in leaderboard_df.cols ) =>
        IF \A i \in 1..Len(Board) : CurrentWeekColumn[i] = 0
        THEN biggest_mover.kind # "mover" /\ biggest_mover.Participant = NaN
        ELSE /\ biggest_mover.kind = "mover"
             /\ \A i \in 1..Len(Board) : CurrentWeekColumn[i] <= biggest_mover.value
             /\ \E i \in 1..Len(Board) :
                    /\ Board[i].Participant = biggest_mover.Participant
                    /\ CurrentWeekColumn[i] = biggest_mover.value

\* the fraction q is the number x
Equals(q, x) == q.den > 0 /\ q.num = x * q.den

PctAsClaimed(kpi) ==
    ( kpi.status = "computed" /\ kpi.current >= 0 /\ kpi.previous >= 0 ) =>
        /\ kpi.pct.den > 0
        /\ kpi.previous > 0 =>
               kpi.pct.num * kpi.previous
                   = (kpi.current - kpi.previous) * 100 * kpi.pct.den
        /\ (kpi.previous = 0 /\ kpi.current > 0) => Equals(kpi.pct, 100)
        /\ (kpi.previous = 0 /\ kpi.current = 0) => Equals(kpi.pct, 0)
        /\ (kpi.previous > 0 /\ 2 * kpi.current = kpi.previous) => Equals(kpi.pct, 0 - 50)

\* C10: in each of the three week-to-date comparisons, for non-negative
\* values, pct_change is (current - previous) / previous * 100 when
\* previous > 0, 100 when previous = 0 < current, and 0 when both are 0.
C10_PctChange ==
    /\ PctAsClaimed(distance_kpi)
    /\ PctAsClaimed(activity_kpi)
    /\ PctAsClaimed(points_kpi)

\* 10 miles in last week's window and 5 in this week's: -50; points in
\* this week's window after none in last week's: +100
C10_Witness ==
    /\ pc = "done"
    /\ distance_kpi.status = "computed"
    /\ distance_kpi.previous = 10 * Unit /\ distance_kpi.current = 5 * Unit
    /\ Equals(distance_kpi.pct, 0 - 50)
    /\ points_kpi.status = "computed"
    /\ points_kpi.previous = 0 /\ points_kpi.current > 0
    /\ Equals(points_kpi.pct, 100)
    /\ activity_kpi.status = "computed"
    /\ activity_kpi.previous = activity_kpi.current
    /\ Equals(activity_kpi.pct, 0)

\* a comparison that has run before the start: nothing is computed, and with
\* records to compare it shows the "starts after the competition begin date"
\* note
BeforeStartReport(kpi, has_data) ==
    kpi.status # "unset" =>
        /\ kpi.status # "computed"
        /\ kpi.windows = NaN
        /\ kpi.current = NaN /\ kpi.previous = NaN /\ kpi.pct = NaN
        /\ has_data => kpi.status = "not_applicable"

ParseableRows(rows) == SelectSeq(rows, LAMBDA r : r.Date \notin {NaN, BadText})

\* the normalized table of the raw batch without its unparseable rows
WithoutUnparseable ==
    PreprocessedData([raw EXCEPT !.rows = ParseableRows(raw.rows)], tie_order)

\* C12: a raw row whose Date cannot be parsed is dropped by the
\* preprocessing (the table holds one record per raw row with a date, none
\* without), and the leaderboard (totals and per-week columns) and the three
\* week-to-date comparisons are those of the batch without such rows.
C12_UnparseableDatesDropped ==
    load_ok =>
        /\ Normalized =>
               /\ Len(Rows) = Len(ParseableRows(raw.rows))
               /\ \A i \in 1..Len(Rows) : Rows[i].Date \notin {NaN, BadText}
        /\ leaderboard_df # None =>
               leaderboard_df = calculate_leaderboard(WithoutUnparseable,
                                    competition_total_weeks, tie_order)
        /\ distance_kpi.status # "unset" =>
               distance_kpi = DistanceKpi(WithoutUnparseable, today)
        /\ activity_kpi.status # "unset" =>
               activity_kpi = ActivityKpi(WithoutUnparseable, today)
        /\ points_kpi.status # "unset" =>
               points_kpi = PointsKpi(WithoutUnparseable, today)

\* a batch of two rows, the first participant's without a date: that
\* participant is on no leaderboard row and the counts are of one activity
C12_Witness ==
    /\ pc = "done"
    /\ Len(raw.rows) = 2
    /\ raw.rows[1].Date = BadText /\ raw.rows[1].Participant = 1
    /\ Len(Rows) = 1
    /\ Len(Board) = 1 /\ Board[1].Participant = 2
    /\ Board[1].Points = Rows[1].Points
    /\ activity_kpi.status = "computed" /\ activity_kpi.current = 1
    /\ points_kpi.status = "computed" /\ points_kpi.current = Rows[1].Points

\* C13 as claimed: after the preprocessing every zone-minute value of every
\* record is >= 0 and every record's Points is >= 0, whatever the raw batch.
C13_ZonesAndPointsNonNegative ==
    Normalized =>
        \A i \in 1..Len(Rows) :
            /\ \A z \in 1..5 : Rows[i].Zone[z] >= 0
            /\ Rows[i].Points >= 0

\* the normalized record r is the raw row q: same date, participant, type
FromRaw(r, q) ==
    /\ r.Date = q.Date
    /\ r.Participant = q.Participant
    /\ r.WorkoutType = q.WorkoutType

\* the zone cells of the normalized record r, given the raw row q
ZonesCoerced(r, q) ==
    \A z \in 1..5 :
        IF zone_cols[z] \notin raw.cols \/ q.Zone[z] \in {NaN, BadText}
        THEN r.Zone[z] = 0
        ELSE r.Zone[z] = q.Zone[z]

\* C14: the preprocessing of a loaded batch that has rows and a Date column
\* does not fail, whatever its zone data; the table has the five zone
\* columns; a zone column absent from the raw batch is 0 in every record, a
\* zone cell that is not a number or is missing is 0, any other is unchanged.
C14_ZoneDataCoerced ==
    ( /\ pc \notin {"load", "preprocess"}
      /\ load_ok /\ ~empty(raw) /\ "Date" \in raw.cols ) =>
        /\ Normalized
        /\ ZoneColSet \subseteq weekly_data.cols
        /\ \A i \in 1..Len(Rows) :
               \E j \in 1..Len(raw.rows) :
                   FromRaw(Rows[i], raw.rows[j]) /\ ZonesCoerced(Rows[i], raw.rows[j])

\* a batch without the columns Zone 2 and Zone 5, and a row of it with a
\* missing Zone 3 cell and text in Zone 4: only its Zone 1 minute counts
C14_Witness ==
    /\ Normalized
    /\ {"Zone 2", "Zone 5"} \cap raw.cols = {}
    /\ {"Zone 2", "Zone 5"} \subseteq weekly_data.cols
    /\ \E i \in 1..Len(Rows) : \E j \in 1..Len(raw.rows) :
           /\ FromRaw(Rows[i], raw.rows[j])
           /\ raw.rows[j].Zone[3] = NaN /\ raw.rows[j].Zone[4] = BadText
           /\ Rows[i].Zone = <<1, 0, 0, 0, 0>>
           /\ Rows[i].Points = 1

\* the loaded batch has no rows, or no row of it has a date
NothingParseable == empty(load_weekly_data_result) \/ ParseableRows(raw.rows) = <<>>

\* C15 as claimed: when the raw batch is empty, and when every row of it has
\* an unparseable date, the preprocessing ends without raising in an empty
\* table whose columns are Date, Participant, Workout Type, Total Duration,
\* Total Distance, Zone 1 .. Zone 5, Points and Week.
C15_EmptyTableHasExpectedColumns ==
    ( pc \notin {"load", "preprocess"} /\ NothingParseable ) =>
        /\ Rows = <<>>
        /\ weekly_data.cols = expected_cols

\* the columns of a leaderboard row: rank, participant, total points, points
\* behind and one points column per week
LeaderboardRowCols ==
    LeaderboardBaseCols \cup {WeekTotalsCol[w] : w \in 1..competition_total_weeks}

\* C16 as claimed: calculate_leaderboard, given a table without rows or
\* without a Participant column, returns an empty leaderboard whose columns
\* are Rank, Participant, Points, Points Behind and Week 1 Totals .. Week 8
\* Totals.
C16_EmptyLeaderboardHasRowColumns ==
    ( /\ pc = "mover"
      /\ empty(weekly_data) \/ "Participant" \notin weekly_data.cols ) =>
        /\ leaderboard_df.rows = <<>>
        /\ leaderboard_df.cols = LeaderboardRowCols

\* C17 as claimed: whatever the raw batch (any subset of the expected columns,
\* any cells, no Participant column, no rows), the run from the
\* preprocessing through the sidebar filters, the leaderboard and the
\* week-to-date comparisons never stops on an uncaught exception.
C17_RunNeverFails == pc # Crashed

\* the per-week columns of the leaderboard in which the record r is counted
CountedInWeeks(r) ==
    {w \in 1..competition_total_weeks :
        /\ WeekTotalsCol[w] \in leaderboard_df.cols
        /\ r.Week = w}

\* C18 as claimed: every record of the normalized table carries one week
\* number in 1..8; when the raw batch has no Week column it is the week that
\* get_current_week gives for the record's date; and every record of a
\* participant is counted in exactly one per-week column of the leaderboard.
C18_EveryRecordHasOneWeek ==
    /\ (Normalized /\ load_ok) =>
           \A i \in 1..Len(Rows) :
               /\ Rows[i].Week \in 1..8
               /\ "Week" \notin raw.cols =>
                      Rows[i].Week = get_current_week(S, Rows[i].Date)
    /\ (LeaderboardComputed /\ leaderboard_df # None) =>
           \A i \in 1..Len(Rows) :
               Rows[i].Participant # NaN => Cardinality(CountedInWeeks(Rows[i])) = 1

\* the participants named by the records of the table
NamedParticipants == unique_participants(weekly_data) \ {NaN}

\* the records of participant p
RecordsOf(p) == {i \in 1..Len(Rows) : Rows[i].Participant = p}

\* the Points of the records in the set I of row numbers, added up
RECURSIVE PointsOver(_)
PointsOver(I) ==
    IF I = {} THEN 0
    ELSE LET i == CHOOSE k \in I : TRUE
         IN Rows[i].Points + PointsOver(I \ {i})

\* C19: the leaderboard has exactly one row per distinct participant named
\* in the table, whose Points is the sum of the Points of that participant's
\* records; records without a participant make no row and add to none.
C19_OneRowPerParticipant ==
    leaderboard_df # None =>
        /\ Len(Board) = Cardinality(NamedParticipants)
        /\ \A p \in NamedParticipants :
               \E i \in 1..Len(Board) :
                   /\ Board[i].Participant = p
                   /\ Board[i].Points = PointsOver(RecordsOf(p))
                   /\ \A j \in 1..Len(Board) : Board[j].Participant = p => j = i
        /\ \A i \in 1..Len(Board) : Board[i].Participant \in NamedParticipants

\* three scored records, two of one participant and one of nobody: one row,
\* with the points of the two
C19_Witness ==
    /\ leaderboard_df # None
    /\ Len(Rows) = 3
    /\ Len(Board) = 1
    /\ Cardinality(RecordsOf(Board[1].Participant)) = 2
    /\ \E i \in RecordsOf(NaN) : Rows[i].Points > 0
    /\ Board[1].Points > 0
    /\ Board[1].Points < PointsOver(1..3)

\* the records of participant p whose Week is w
RecordsOfWeek(p, w) == {i \in RecordsOf(p) : Rows[i].Week = w}

\* C20 as claimed: for a table with a Week column, every week w in 1..8 and
\* every leaderboard participant p, the column 'Week w Totals' holds the sum
\* of the Points of p's records whose Week is w, which is 0 when there are
\* none, and never a missing value.
C20_WeekTotalsAreSums ==
    ( leaderboard_df # None /\ "Week" \in weekly_data.cols ) =>
        \A i \in 1..Len(Board) : \A w \in 1..competition_total_weeks :
            /\ WeekTotalsCol[w] \in leaderboard_df.cols
            /\ Board[i].WeekTotals[w] # NaN
            /\ Board[i].WeekTotals[w] = PointsOver(RecordsOfWeek(Board[i].Participant, w))

\* the workout types of the batches that contain "run" in some casing
RunningTypes == {"Run", "Trail run", "RUNNING"}

RunningRecords == SelectSeq(Rows, LAMBDA r : r.WorkoutType \in RunningTypes)

\* the comparison kpi is made of the cells of rows, in its own windows
OverOwnWindows(kpi, rows, cells) ==
    /\ kpi.current = WindowSum(rows, cells, kpi.windows.current_week_start_dt,
                               kpi.windows.current_period_end_dt)
    /\ kpi.previous = WindowSum(rows, cells, kpi.windows.prev_week_start_dt,
                                kpi.windows.prev_period_end_dt)

\* C21: the distance comparison sums Total Distance over the records whose
\* Workout Type contains "run" in any casing and over no other record; the
\* activity-count and points comparisons count and sum the records of every
\* workout type, each in its windows.
C21_DistanceOfRunsOnly ==
    /\ distance_kpi.status = "computed" =>
           OverOwnWindows(distance_kpi, RunningRecords, RunDistance(RunningRecords))
    /\ activity_kpi.status = "computed" =>
           OverOwnWindows(activity_kpi, Rows, OneActivity(Rows))
    /\ points_kpi.status = "computed" =>
           OverOwnWindows(points_kpi, Rows, Column(Rows, "Points"))

\* a trail run and a bike ride in this week's window: the distance is the
\* run's alone, the count and the points are of both
C21_Witness ==
    /\ pc = "done"
    /\ Len(Rows) = 2
    /\ \E i, j \in 1..2 :
           /\ Rows[i].WorkoutType = "Trail run" /\ Rows[j].WorkoutType = "Bike"
           /\ Rows[j].TotalDistance > 0
           /\ distance_kpi.status = "computed"
           /\ distance_kpi.current = Rows[i].TotalDistance
           /\ activity_kpi.current = 2
           /\ points_kpi.current = Rows[i].Points + Rows[j].Points
           /\ Rows[j].Points > 0

\* the second pass has ended
SecondPassEnded == last_run # NoRun /\ pc \in {"done", Crashed}

AtDerivedView ==
    pc \in {"log", "leaderboard", "runners", "distance", "activity", "points"}

\* C23: the activity log, the leaderboard and the three week-to-date
\* comparisons each leave the normalized table as it was: the same rows in
\* the same order, the same columns, the same cells.
C23_ViewsLeaveTableUnchanged ==
    [][AtDerivedView => weekly_data' = weekly_data]_vars

\* all weeks and all participants selected: the log shows every record with
\* its date as text, and the table still holds the dates
C23_Witness ==
    /\ pc = "done"
    /\ selected_week_str_sb = All /\ selected_participant_sb = All
    /\ Len(Rows) = 2
    /\ Len(filtered_display_data.rows) = 2
    /\ \A i \in 1..2 : filtered_display_data.rows[i].Date = strftime(Rows[i].Date)
    /\ leaderboard_df.rows # <<>>
    /\ activity_kpi.status = "computed"

\* C24: the rows of the normalized table are in non-increasing order of
\* Date, the most recent first, whatever the raw batch.
C24_SortedByDateDescending ==
    Normalized =>
        \A i, j \in 1..Len(Rows) : i < j => Rows[i].Date >= Rows[j].Date

\* a batch in ascending order of date: the table has its rows reversed
C24_Witness ==
    /\ Normalized
    /\ Len(raw.rows) = 2 /\ Len(Rows) = 2
    /\ raw.rows[1].Date < raw.rows[2].Date
    /\ Rows[1].Date = raw.rows[2].Date
    /\ Rows[2].Date = raw.rows[1].Date
    /\ Rows[1].Date > Rows[2].Date

\* a cell that is missing or not a number, taken as 0
MissingAsZero(c) == IF c \in {NaN, BadText} THEN 0 ELSE c

\* the normalized cell of a numeric column, given the raw cell: missing if
\* the raw cell is missing or not a number, the number otherwise
StaysMissing(col, cell, rawcell) ==
    IF col \notin raw.cols \/ rawcell \in {NaN, BadText}
    THEN cell = NaN
    ELSE cell = rawcell

\* the cells numbered by the set I, added up
RECURSIVE CellsOver(_, _)
CellsOver(cells, I) ==
    IF I = {} THEN 0
    ELSE LET i == CHOOSE k \in I : TRUE
         IN cells[i] + CellsOver(cells, I \ {i})

RunningDistances ==
    [i \in 1..Len(RunningRecords) |-> MissingAsZero(RunningRecords[i].TotalDistance)]

RunningDurations ==
    [i \in 1..Len(RunningRecords) |-> MissingAsZero(RunningRecords[i].TotalDuration)]

RunningRecordsOf(p) ==
    {i \in 1..Len(RunningRecords) : RunningRecords[i].Participant = p}

\* C25: a Total Distance or Total Duration cell that is missing or not a
\* number is missing in the normalized table, not 0; the week-to-date
\* running-distance sums and the per-participant running distance and
\* duration totals count it as 0 and are never missing themselves.
C25_MissingStaysMissingSumsAsZero ==
    /\ (Normalized /\ load_ok) =>
           \A i \in 1..Len(Rows) : \E j \in 1..Len(raw.rows) :
               /\ FromRaw(Rows[i], raw.rows[j])
               /\ StaysMissing("Total Distance", Rows[i].TotalDistance,
                               raw.rows[j].TotalDistance)
               /\ StaysMissing("Total Duration", Rows[i].TotalDuration,
                               raw.rows[j].TotalDuration)
    /\ distance_kpi.status = "computed" =>
           /\ OverOwnWindows(distance_kpi, RunningRecords, RunningDistances)
           /\ distance_kpi.current # NaN /\ distance_kpi.previous # NaN
    /\ combined_data.status = "computed" =>
           \A k \in 1..Len(combined_data.rows) :
               LET row == combined_data.rows[k]
               IN /\ row.TotalDistance =
                         CellsOver(RunningDistances, RunningRecordsOf(row.Participant))
                  /\ row.TotalDuration =
                         CellsOver(RunningDurations, RunningRecordsOf(row.Participant))
                  /\ row.TotalDistance # NaN /\ row.TotalDuration # NaN

\* a trail run of this week whose distance is missing and whose duration is
\* text: both are missing in the table, this week's distance is 0 against
\* last week's 5 miles, and the runner's totals are 0 miles and 0 minutes
C25_Witness ==
    /\ pc = "done"
    /\ Len(Rows) = 2
    /\ Rows[1].WorkoutType = "Trail run"
    /\ Rows[1].TotalDistance = NaN /\ Rows[1].TotalDuration = NaN
    /\ \E j \in 1..2 : raw.rows[j].TotalDuration = BadText
    /\ distance_kpi.status = "computed"
    /\ distance_kpi.current = 0 /\ distance_kpi.previous = 10
    /\ combined_data.status = "computed"
    /\ Len(combined_data.rows) = 2
    /\ combined_data.rows[1].Participant = Rows[1].Participant
    /\ combined_data.rows[1].TotalDistance = 0
    /\ combined_data.rows[1].TotalDuration = 0
    /\ combined_data.rows[2].TotalDuration = 60

\* the week-to-date comparisons of the run
Comparisons == <<distance_kpi, activity_kpi, points_kpi>>

\* the days of a window, both ends included
WindowLength(lo, hi) == hi - lo + 1

\* the windows w are the ones today calls for
WindowsOfToday(w) ==
    /\ w.current_period_end_dt = today
    /\ w.current_week_start_dt =
           competition_start_datetime
               + 7 * ((today - competition_start_datetime) \div 7)
    /\ w.prev_week_start_dt = w.current_week_start_dt - 7
    /\ w.prev_period_end_dt = w.current_period_end_dt - 7
    /\ WindowLength(w.prev_week_start_dt, w.prev_period_end_dt) =
           WindowLength(w.current_week_start_dt, w.current_period_end_dt)
    /\ WindowLength(w.current_week_start_dt, w.current_period_end_dt) \in 1..7
    /\ w.prev_period_end_dt < w.current_week_start_dt

DecidedByDate(kpi) == kpi.status \in {"computed", "not_applicable"}

\* C27: for one today, the distance, activity-count and points comparisons
\* apply under the same condition (today on or after the start date) and use
\* the same current and previous windows; none applies while another is
\* not applicable because of the date.
C27_SameWindowsSameApplicability ==
    \A j \in 1..3 :
        /\ Comparisons[j].status = "computed" => today >= competition_start_datetime
        /\ Comparisons[j].status = "not_applicable" => today < competition_start_datetime
        /\ \A k \in 1..3 :
               (DecidedByDate(Comparisons[j]) /\ DecidedByDate(Comparisons[k]))
                   => /\ Comparisons[j].status = Comparisons[k].status
                      /\ Comparisons[j].windows = Comparisons[k].windows

\* the first day of the competition: the three comparisons are all made,
\* each over that Sunday and the Sunday before
C27_Witness ==
    /\ today = competition_start_datetime
    /\ \A k \in 1..3 :
           /\ Comparisons[k].status = "computed"
           /\ Comparisons[k].windows =
                  [current_week_start_dt |-> today, current_period_end_dt |-> today,
                   prev_week_start_dt |-> today - 7, prev_period_end_dt |-> today - 7]

\* a record whose Week is missing, not a number or not one of the weeks
InvalidWeek(r) ==
    \/ "Week" \notin weekly_data.cols
    \/ r.Week \in {NaN, BadText}
    \/ r.Week \notin 1..competition_total_weeks

\* the whole points of x (weekly totals are shown as whole numbers)
WholePoints(x) == IF x >= 0 THEN x - (x % Unit) ELSE x + ((0 - x) % Unit)

\* the records of participant p whose Week is a week of the competition
ValidWeekRecordsOf(p) == {i \in RecordsOf(p) : ~InvalidWeek(Rows[i])}

\* C28: a record whose Week is missing, not a number or outside 1..8 adds to
\* its participant's Points (hence to the ranking and to Points Behind), and
\* to no 'Week w Totals' column: each of these columns is made of the
\* participant's records of week w alone.
C28_InvalidWeekOnlyInTotal ==
    leaderboard_df # None =>
        \A i \in 1..Len(Board) :
            /\ Board[i].Points = PointsOver(RecordsOf(Board[i].Participant))
            /\ Board[i].PointsBehind = Board[1].Points - Board[i].Points
            /\ \A j \in 1..Len(Board) : i < j => Board[i].Points >= Board[j].Points
            /\ \A w \in 1..competition_total_weeks :
                   WeekTotalsCol[w] \in leaderboard_df.cols =>
                       Board[i].WeekTotals[w] =
                           WholePoints(PointsOver(
                               {a \in ValidWeekRecordsOf(Board[i].Participant) :
                                   Rows[a].Week = w}))

\* a participant with one record of week 9 and one whose week is text: 3
\* points in total, and nothing in any of the eight weekly columns
C28_Witness ==
    /\ leaderboard_df # None
    /\ \E i \in 1..Len(Board) :
           /\ \E a, b \in RecordsOf(Board[i].Participant) :
                  /\ Rows[a].Week = 9 /\ Rows[a].Points = 4
                  /\ Rows[b].Week = NaN /\ Rows[b].Points = 2
                  /\ \E j \in 1..Len(raw.rows) : raw.rows[j].Week = BadText
           /\ Board[i].Points = 6
           /\ \A w \in 1..competition_total_weeks :
                  /\ WeekTotalsCol[w] \in leaderboard_df.cols
                  /\ Board[i].WeekTotals[w] = 0

\* the sidebar has offered its two selectors for a loaded table
SelectorsOffered ==
    /\ pc \in {"log", "leaderboard", "mover", "runners", "distance", "activity",
                "points", "done"}
    /\ ~empty(weekly_data)

\* C29: whatever today is, the current week is one of 1..8; the biggest
\* mover view never reports that the competition has not started (week 0);
\* and for a loaded table the week selector opens on the current week,
\* never on "All Weeks".
C29_CurrentWeekWithinCompetition ==
    /\ current_week # NaN => current_week \in 1..8
    /\ pc \notin {"load", "preprocess", "week", Crashed} => current_week \in 1..8
    /\ biggest_mover.kind # "not_started"
    /\ SelectorsOffered =>
           /\ default_week(current_week) = current_week
           /\ default_week(current_week) # All
           /\ ui_week \notin all_weeks_options => selected_week_str_sb = current_week

\* three days before the start, with a table loaded and no week chosen by
\* the user: the week is 1, the selector shows week 1 and the biggest mover
\* of week 1 is looked for
C29_Witness ==
    /\ pc = "done"
    /\ today = competition_start_datetime - 3
    /\ SelectorsOffered
    /\ ui_week \notin all_weeks_options
    /\ current_week = 1
    /\ selected_week_str_sb = 1
    /\ biggest_mover.kind \in {"mover", "column_missing"}

\* a cell that holds a number
Defined(c) == c \notin {NaN, BadText}

\* C30: in the normalized table the Points of every record is a number,
\* never missing, whether the raw zone columns were absent or their cells
\* empty or text: the zone cells are made numbers (0 for those) first, and
\* Points is the weighted sum of these numbers.
C30_PointsAlwaysDefined ==
    Normalized =>
        \A i \in 1..Len(Rows) :
            /\ Defined(Rows[i].Points)
            /\ \A z \in 1..5 : Defined(Rows[i].Zone[z])
            /\ Rows[i].Points =
                   Rows[i].Zone[1] + 2 * Rows[i].Zone[2] + 3 * Rows[i].Zone[3]
                       + 4 * Rows[i].Zone[4] + 5 * Rows[i].Zone[5]

\* a batch without Zone 2 and Zone 5, and a record with text in Zone 1 and
\* half a minute in Zone 3: one point and a half (3 in 1/Unit)
C30_Witness ==
    /\ Normalized
    /\ {"Zone 2", "Zone 5"} \cap raw.cols = {}
    /\ \E i \in 1..Len(Rows) : \E j \in 1..Len(raw.rows) :
           /\ FromRaw(Rows[i], raw.rows[j])
           /\ raw.rows[j].Zone[1] = BadText
           /\ raw.rows[j].Zone[3] = 1
           /\ Rows[i].Points = 3

====
